---- MODULE Spec2Model ----
(***************************************************************************)
(* Olympics PWA backend: the game-state mutation handlers (Supabase SDK    *)
(* handlers of admin_supabase.py / students_supabase.py, SQLAlchemy        *)
(* handlers of admin.py / students.py) and the WebSocket connection        *)
(* registry (websocket_manager.py / realtime.py).                          *)
(*                                                                         *)
(* Three specifications share the module:                                  *)
(*   SpecSupabase  the Supabase handlers; every .execute() call is one     *)
(*                 atomic step against the hosted store and the handlers   *)
(*                 of different requests interleave between their calls    *)
(*   SpecOrm       the SQLAlchemy handlers; one request is one session     *)
(*                 transaction ended by db.commit()                        *)
(*   SpecReg       the ConnectionManager and the websocket endpoint        *)
(***************************************************************************)
EXTENDS Integers, Sequences, FiniteSets, TLC

VARIABLES
    player_stats,   \* table player_stats: a set of rows
    xp_entries,     \* table xp_entries: a set of rows
    hpc,            \* Supabase handler h: position in its handler
    hreq,           \* Supabase handler h: the request it serves
    hsnap,          \* Supabase handler h: rows its select returned
    hrew,           \* Supabase handler h: rewards computed by roll_dice
    hresp,          \* Supabase handler h: HTTP outcome
    hwrote,         \* history: handler h's write to player_stats was stored
    stats0,         \* history: the player_stats table at the start
    player_skills,  \* table player_skills: a set of rows
    player_inventory, \* table player_inventory: a set of rows
    dice_rolls,     \* table dice_rolls: a set of rows
    notify_tasks,   \* notification tasks made with asyncio.create_task
    orm_last,       \* history: the last SQLAlchemy request and its outcome
    orm_n,          \* history: number of SQLAlchemy requests served
    manager,        \* connection_manager: connections, connection_data, rooms, connection_count
    ws_pc,          \* websocket_endpoint of socket s: position in the endpoint
    ws_user,        \* websocket_endpoint of socket s: user_id of the path
    ws_open,        \* transport of socket s: the peer has not closed it
    inq,            \* transport of socket s: client messages not yet received
    ws_reply,       \* websocket_endpoint of socket s: the message it is sending
    ws_token,       \* websocket_endpoint of socket s: the token of its handshake
    ws_dead,        \* socket s is marked disconnected by a failed send
    bcast,          \* send_to_user / broadcast_to_room task b: its loop over the copy
    dice_in,        \* a dice roll's skill level, drawn value and client success_chance
    dice_out        \* the outcome a roll handler computed for dice_in

storeVars == <<player_stats, xp_entries>>
handlerVars == <<hpc, hreq, hsnap, hrew, hresp, hwrote>>
ormVars == <<player_skills, player_inventory, dice_rolls, notify_tasks, orm_last, orm_n>>
regVars == <<manager, ws_pc, ws_user, ws_open, inq, ws_reply, ws_token, ws_dead, bcast>>
diceVars == <<dice_in, dice_out>>
vars == <<player_stats, xp_entries, hpc, hreq, hsnap, hrew, hresp, hwrote, stats0,
          player_skills, player_inventory, dice_rolls, notify_tasks, orm_last, orm_n,
          manager, ws_pc, ws_user, ws_open, inq, ws_reply, ws_token, ws_dead, bcast,
          dice_in, dice_out>>

----------------------------------------------------------------------------
(* Bounds of the model *)

NumHandlers == 2
MaxOrmRequests == 3
NumSockets == 2
NumUsers == 2
MaxQueue == 1
NumBroadcasts == 2
MaxInitMoves == 1
MaxDraw == 1

Handlers == 1..NumHandlers
Sockets == 1..NumSockets
UserIds == 1..NumUsers
Broadcasts == 1..NumBroadcasts

----------------------------------------------------------------------------
(* Program constants *)

XpPerLevel == 200
AssignmentMaxXp == 100
StartingMoves == 3
StartingGold == 3

Student == "student"
Units == {"unit1"}
AssignmentIds == {"a1"}

\* assignments row of a1 (max_xp default of the model, unit of the assignment)
Assignment(a) == [id |-> a, unit_id |-> "unit1", max_xp |-> AssignmentMaxXp]

----------------------------------------------------------------------------
(* Rows *)

NoUnitXp == [u \in Units |-> 0]

\* initial_stats of get_my_profile
InitialStats(moves) ==
    [user_id |-> Student, total_xp |-> 0, current_xp |-> 0, current_level |-> 1,
     gameboard_xp |-> 0, gameboard_position |-> 1, gameboard_moves |-> moves,
     gold |-> StartingGold, unit_xp |-> NoUnitXp]

\* random.randint(lo, hi), sampled at most MaxDraw values from either end
RandInt(lo, hi) == {x \in lo..hi : x - lo < MaxDraw \/ hi - x < MaxDraw}

\* new_level = max(1, new_total_xp // 200 + 1)
LevelFor(total) ==
    LET l == (total \div XpPerLevel) + 1 IN IF l > 1 THEN l ELSE 1

\* .select('*').eq('user_id', user)
SelectStats(user) == {r \in player_stats : r.user_id = user}

\* stats_result.data[0]
FirstRow(rows) == CHOOSE r \in rows : TRUE

\* .update(cols).eq('user_id', user): the named columns of every matching row
UpdateStats(user, cols) ==
    {IF r.user_id = user
        THEN [f \in DOMAIN r |-> IF f \in DOMAIN cols THEN cols[f] ELSE r[f]]
        ELSE r : r \in player_stats}

\* UNIQUE(user_id) of player_stats: an insert of a second row for a user raises
CanInsertStats(user) == SelectStats(user) = {}

----------------------------------------------------------------------------
(* Requests the Supabase handlers accept *)

NoReq == [kind |-> "none"]
NoRewards == [xp_gained |-> 0, gold_gained |-> 0]

\* AwardXPRequest: xp_awarded is any int
AwardRequests ==
    [kind : {"award"}, target_known : BOOLEAN,
     assignment_id : AssignmentIds \cup {"missing"},
     xp_awarded : {-100, 100, 150}]

\* dice_data: skill_level, success_chance and roll_result as the client sent
\* them (or the defaults 1, 50 and random.randint(1, 100))
RollRequests ==
    [kind : {"roll"}, skill_level : {1, 3}, success_chance : {50},
     roll_result : RandInt(1, 100)]

\* BulkAwardRequest: award_type is any string, amount any int
BulkRequests ==
    [kind : {"bulk"}, award_type : {"xp", "gold", "gameboard_moves"},
     amount : {-1, 1}]

\* UpdateStatsRequest with at most one of its optional fields set
UpdateRequests ==
    [kind : {"update"},
     field : {"gameboard_position", "gameboard_moves", "gameboard_xp", "gold", "none"},
     value : {-1, 2}]

Wrote(h, b) == hwrote' = [hwrote EXCEPT ![h] = b]

Done(h, resp) ==
    /\ hpc' = [hpc EXCEPT ![h] = "done"]
    /\ hresp' = [hresp EXCEPT ![h] = resp]

Goto(h, pc) ==
    /\ hpc' = [hpc EXCEPT ![h] = pc]
    /\ UNCHANGED hresp

----------------------------------------------------------------------------
(* admin_supabase.py award_assignment_xp *)

AwardBegin(h) ==
    /\ hpc[h] = "idle"
    /\ \E r \in AwardRequests : hreq' = [hreq EXCEPT ![h] = r]
    /\ Goto(h, "award_validate")
    /\ UNCHANGED <<storeVars, hsnap, hrew, hwrote, stats0, ormVars, regVars, diceVars>>

\* the selects on users and assignments and the max_xp check
AwardValidate(h) ==
    /\ hpc[h] = "award_validate"
    /\ IF ~hreq[h].target_known
          THEN Done(h, "404")
          ELSE IF hreq[h].assignment_id \notin AssignmentIds
                  THEN Done(h, "404")
                  ELSE IF hreq[h].xp_awarded > Assignment(hreq[h].assignment_id).max_xp
                          THEN Done(h, "400")
                          ELSE Goto(h, "award_insert_xp")
    /\ UNCHANGED <<storeVars, hreq, hsnap, hrew, hwrote, stats0, ormVars, regVars, diceVars>>

\* xp_entries.insert(xp_entry); the call raises or returns no data when it fails
AwardInsertXp(h) ==
    /\ hpc[h] = "award_insert_xp"
    /\ \E ok \in BOOLEAN :
         IF ok
            THEN /\ xp_entries' = xp_entries \cup
                        {[id |-> h, user_id |-> Student,
                          assignment_id |-> hreq[h].assignment_id,
                          xp_amount |-> hreq[h].xp_awarded]}
                 /\ Goto(h, "award_select")
            ELSE /\ UNCHANGED xp_entries
                 /\ Done(h, "500")
    /\ UNCHANGED <<player_stats, hreq, hsnap, hrew, hwrote, stats0, ormVars, regVars, diceVars>>

\* player_stats.select('*').eq('user_id', target)
AwardSelect(h) ==
    /\ hpc[h] = "award_select"
    /\ \E ok \in BOOLEAN :
         IF ok
            THEN /\ hsnap' = [hsnap EXCEPT ![h] = SelectStats(Student)]
                 /\ Goto(h, "award_write")
            ELSE /\ UNCHANGED hsnap
                 /\ Done(h, "500")
    /\ UNCHANGED <<storeVars, hreq, hrew, hwrote, stats0, ormVars, regVars, diceVars>>

\* updated_stats, computed from the row read before
AwardUpdatedStats(h) ==
    LET cur == FirstRow(hsnap[h])
        amt == hreq[h].xp_awarded
        unit == Assignment(hreq[h].assignment_id).unit_id
        total == cur.total_xp + amt
    IN  [total_xp |-> total,
         current_xp |-> cur.current_xp + amt,
         current_level |-> LevelFor(total),
         unit_xp |-> [cur.unit_xp EXCEPT ![unit] = @ + amt]]

\* new_stats, when the select found no row
AwardNewStats(h) ==
    LET amt == hreq[h].xp_awarded
        unit == Assignment(hreq[h].assignment_id).unit_id
    IN  [user_id |-> Student, total_xp |-> amt, current_xp |-> amt,
         current_level |-> LevelFor(amt), gameboard_xp |-> 0,
         gameboard_position |-> 1, gameboard_moves |-> 0, gold |-> 0,
         unit_xp |-> [NoUnitXp EXCEPT ![unit] = amt]]

\* player_stats.update(updated_stats) or player_stats.insert(new_stats)
AwardWrite(h) ==
    /\ hpc[h] = "award_write"
    /\ \E ok \in BOOLEAN :
         IF hsnap[h] # {}
            THEN IF ok
                    THEN /\ player_stats' = UpdateStats(Student, AwardUpdatedStats(h))
                         /\ Wrote(h, TRUE)
                         /\ Done(h, "200")
                    ELSE /\ UNCHANGED <<player_stats, hwrote>>
                         /\ Done(h, "500")
            ELSE IF ok /\ CanInsertStats(Student)
                    THEN /\ player_stats' = player_stats \cup {AwardNewStats(h)}
                         /\ Wrote(h, TRUE)
                         /\ Done(h, "200")
                    ELSE /\ UNCHANGED <<player_stats, hwrote>>
                         /\ Done(h, "500")
    /\ UNCHANGED <<xp_entries, hreq, hsnap, hrew, stats0, ormVars, regVars, diceVars>>

award_assignment_xp(h) ==
    \/ AwardBegin(h)
    \/ AwardValidate(h)
    \/ AwardInsertXp(h)
    \/ AwardSelect(h)
    \/ AwardWrite(h)

----------------------------------------------------------------------------
(* students_supabase.py roll_dice *)

RollBegin(h) ==
    /\ hpc[h] = "idle"
    /\ \E r \in RollRequests : hreq' = [hreq EXCEPT ![h] = r]
    /\ Goto(h, "roll_select")
    /\ UNCHANGED <<storeVars, hsnap, hrew, hwrote, stats0, ormVars, regVars, diceVars>>

\* was_successful = roll_result <= success_chance
WasSuccessful(r) == r.roll_result <= r.success_chance

\* xp_gained and gold_gained of a roll, for the random draws the code makes
RollRewards(r) ==
    IF WasSuccessful(r)
       THEN {[xp_gained |-> r.skill_level * 10 + x + (IF r.skill_level >= 3 THEN 10 ELSE 0),
              gold_gained |-> g + (IF r.skill_level >= 3 THEN 2 ELSE 0)] :
                 x \in RandInt(5, 15), g \in RandInt(1, 5)}
       ELSE {[xp_gained |-> x, gold_gained |-> 0] : x \in RandInt(1, 5)}

\* the select on player_stats, the moves check and the reward computation
RollSelect(h) ==
    /\ hpc[h] = "roll_select"
    /\ \E ok \in BOOLEAN :
         IF ~ok
            THEN /\ UNCHANGED <<hsnap, hrew, hwrote, stats0, ormVars, regVars, diceVars>>
                 /\ Done(h, "500")
            ELSE /\ hsnap' = [hsnap EXCEPT ![h] = SelectStats(Student)]
                 /\ IF SelectStats(Student) = {}
                       THEN /\ UNCHANGED hrew
                            /\ Done(h, "404")
                       ELSE IF FirstRow(SelectStats(Student)).gameboard_moves <= 0
                               THEN /\ UNCHANGED hrew
                                    /\ Done(h, "no_moves")
                               ELSE /\ \E w \in RollRewards(hreq[h]) :
                                          hrew' = [hrew EXCEPT ![h] = w]
                                    /\ Goto(h, "roll_update")
    /\ UNCHANGED <<storeVars, hreq, hwrote, stats0, ormVars, regVars, diceVars>>

\* update_data, computed from the row read before
RollUpdateData(h) ==
    LET cur == FirstRow(hsnap[h])
        total == cur.total_xp + hrew[h].xp_gained
    IN  [gameboard_moves |-> cur.gameboard_moves - 1,
         total_xp |-> total,
         current_xp |-> cur.current_xp + hrew[h].xp_gained,
         current_level |-> LevelFor(total),
         gold |-> cur.gold + hrew[h].gold_gained,
         gameboard_xp |-> cur.gameboard_xp + hrew[h].xp_gained]

\* player_stats.update(update_data)
RollUpdate(h) ==
    /\ hpc[h] = "roll_update"
    /\ \E ok \in BOOLEAN :
         IF ok
            THEN /\ player_stats' = UpdateStats(Student, RollUpdateData(h))
                 /\ Wrote(h, TRUE)
                 /\ IF hrew[h].xp_gained > 0
                       THEN Goto(h, "roll_insert_xp")
                       ELSE Done(h, "200")
            ELSE /\ UNCHANGED <<player_stats, hwrote>>
                 /\ Done(h, "500")
    /\ UNCHANGED <<xp_entries, hreq, hsnap, hrew, stats0, ormVars, regVars, diceVars>>

\* xp_entries.insert(xp_entry) inside try/except: a failure is only printed
RollInsertXp(h) ==
    /\ hpc[h] = "roll_insert_xp"
    /\ \E ok \in BOOLEAN :
         IF ok
            THEN xp_entries' = xp_entries \cup
                     {[id |-> h, user_id |-> Student, assignment_id |-> "none",
                       xp_amount |-> hrew[h].xp_gained]}
            ELSE UNCHANGED xp_entries
    /\ Done(h, "200")
    /\ UNCHANGED <<player_stats, hreq, hsnap, hrew, hwrote, stats0, ormVars, regVars, diceVars>>

roll_dice(h) ==
    \/ RollBegin(h)
    \/ RollSelect(h)
    \/ RollUpdate(h)
    \/ RollInsertXp(h)

----------------------------------------------------------------------------
(* admin_supabase.py bulk_award_students, for the one student of the model *)

BulkBegin(h) ==
    /\ hpc[h] = "idle"
    /\ \E r \in BulkRequests : hreq' = [hreq EXCEPT ![h] = r]
    /\ Goto(h, "bulk_select")
    /\ UNCHANGED <<storeVars, hsnap, hrew, hwrote, stats0, ormVars, regVars, diceVars>>

\* player_stats.select for the user; an exception lands in failed_awards and
\* the handler still answers success
BulkSelect(h) ==
    /\ hpc[h] = "bulk_select"
    /\ \E ok \in BOOLEAN :
         IF ok
            THEN /\ hsnap' = [hsnap EXCEPT ![h] = SelectStats(Student)]
                 /\ Goto(h, "bulk_write")
            ELSE /\ UNCHANGED hsnap
                 /\ Done(h, "200")
    /\ UNCHANGED <<storeVars, hreq, hrew, hwrote, stats0, ormVars, regVars, diceVars>>

\* updates, computed from the row read before
BulkUpdates(h) ==
    LET cur == FirstRow(hsnap[h])
    IN  IF hreq[h].award_type = "gold"
           THEN [gold |-> cur.gold + hreq[h].amount]
           ELSE IF hreq[h].award_type = "gameboard_moves"
                   THEN [gameboard_moves |-> cur.gameboard_moves + hreq[h].amount]
                   ELSE [updated_at |-> "now"]

\* new_stats of bulk_award_students
BulkNewStats(h) ==
    [user_id |-> Student, total_xp |-> 0, current_xp |-> 0, current_level |-> 1,
     gameboard_xp |-> 0, gameboard_position |-> 1,
     gameboard_moves |->
        IF hreq[h].award_type = "gameboard_moves" THEN hreq[h].amount ELSE 0,
     gold |-> IF hreq[h].award_type = "gold" THEN hreq[h].amount ELSE 0,
     unit_xp |-> NoUnitXp]

BulkWrite(h) ==
    /\ hpc[h] = "bulk_write"
    /\ \E ok \in BOOLEAN :
         IF hsnap[h] # {}
            THEN IF ok
                    THEN /\ player_stats' = UpdateStats(Student, BulkUpdates(h))
                         /\ Wrote(h, TRUE)
                    ELSE UNCHANGED <<player_stats, hwrote>>
            ELSE IF ok /\ CanInsertStats(Student)
                    THEN /\ player_stats' = player_stats \cup {BulkNewStats(h)}
                         /\ Wrote(h, TRUE)
                    ELSE UNCHANGED <<player_stats, hwrote>>
    /\ Done(h, "200")
    /\ UNCHANGED <<xp_entries, hreq, hsnap, hrew, stats0, ormVars, regVars, diceVars>>

bulk_award_students(h) ==
    \/ BulkBegin(h)
    \/ BulkSelect(h)
    \/ BulkWrite(h)

----------------------------------------------------------------------------
(* students_supabase.py update_my_stats *)

UpdateBegin(h) ==
    /\ hpc[h] = "idle"
    /\ \E r \in UpdateRequests : hreq' = [hreq EXCEPT ![h] = r]
    /\ Goto(h, "update_update")
    /\ UNCHANGED <<storeVars, hsnap, hrew, hwrote, stats0, ormVars, regVars, diceVars>>

\* update_data built from the fields that are not None
UpdateData(r) ==
    IF r.field = "gameboard_position" THEN [gameboard_position |-> r.value]
    ELSE IF r.field = "gameboard_moves" THEN [gameboard_moves |-> r.value]
    ELSE IF r.field = "gameboard_xp" THEN [gameboard_xp |-> r.value]
    ELSE [gold |-> r.value]

\* create_data: the defaults overridden by update_data
UpdateCreateData(r) ==
    LET d == [user_id |-> Student, current_xp |-> 0, total_xp |-> 0,
              current_level |-> 1, gameboard_xp |-> 0, gameboard_position |-> 0,
              gameboard_moves |-> StartingMoves, gold |-> StartingGold,
              unit_xp |-> NoUnitXp]
        u == UpdateData(r)
    IN  [f \in DOMAIN d |-> IF f \in DOMAIN u THEN u[f] ELSE d[f]]

\* player_stats.update(update_data); no field set raises the 400, which the
\* handler's except Exception turns into a 500
UpdateUpdate(h) ==
    /\ hpc[h] = "update_update"
    /\ \E ok \in BOOLEAN :
         IF hreq[h].field = "none" \/ ~ok
            THEN /\ UNCHANGED <<player_stats, hwrote>>
                 /\ Done(h, "500")
            ELSE /\ player_stats' = UpdateStats(Student, UpdateData(hreq[h]))
                 /\ Wrote(h, SelectStats(Student) # {})
                 /\ IF SelectStats(Student) = {}
                       THEN Goto(h, "update_insert")
                       ELSE Done(h, "200")
    /\ UNCHANGED <<xp_entries, hreq, hsnap, hrew, stats0, ormVars, regVars, diceVars>>

\* player_stats.insert(create_data) when the update matched no row
UpdateInsert(h) ==
    /\ hpc[h] = "update_insert"
    /\ \E ok \in BOOLEAN :
         IF ok /\ CanInsertStats(Student)
            THEN /\ player_stats' = player_stats \cup {UpdateCreateData(hreq[h])}
                 /\ Wrote(h, TRUE)
                 /\ Done(h, "200")
            ELSE /\ UNCHANGED <<player_stats, hwrote>>
                 /\ Done(h, "500")
    /\ UNCHANGED <<xp_entries, hreq, hsnap, hrew, stats0, ormVars, regVars, diceVars>>

update_my_stats(h) ==
    \/ UpdateBegin(h)
    \/ UpdateUpdate(h)
    \/ UpdateInsert(h)

----------------------------------------------------------------------------
(* The Supabase handlers against the hosted store *)

InitHandlers ==
    /\ hpc = [h \in Handlers |-> "idle"]
    /\ hreq = [h \in Handlers |-> NoReq]
    /\ hsnap = [h \in Handlers |-> {}]
    /\ hrew = [h \in Handlers |-> NoRewards]
    /\ hresp = [h \in Handlers |-> "none"]
    /\ hwrote = [h \in Handlers |-> FALSE]

InitOrmUnused ==
    /\ player_skills = {}
    /\ player_inventory = {}
    /\ dice_rolls = {}
    /\ notify_tasks = <<>>
    /\ orm_last = [req |-> NoReq, status |-> "none"]
    /\ orm_n = 0

\* ConnectionManager.__init__
NewManager ==
    [connections |-> <<>>, connection_data |-> <<>>, rooms |-> <<>>,
     connection_count |-> 0]

\* a send_to_user / broadcast_to_room call that has not been made
NoBroadcast ==
    [pc |-> "idle", kind |-> "none", key |-> "none", cur |-> 0,
     todo |-> {}, sent |-> {}, failed |-> {}, after |-> {}]

\* no websocket is connected
InitRegUnused ==
    /\ manager = NewManager
    /\ ws_pc = [s \in Sockets |-> "init"]
    /\ ws_user = [s \in Sockets |-> 1]
    /\ ws_open = [s \in Sockets |-> TRUE]
    /\ inq = [s \in Sockets |-> <<>>]
    /\ ws_reply = [s \in Sockets |-> "none"]
    /\ ws_token = [s \in Sockets |-> "none"]
    /\ ws_dead = [s \in Sockets |-> FALSE]
    /\ bcast = [b \in Broadcasts |-> NoBroadcast]

\* no roll is being computed
NoDice == [path |-> "none"]

InitDiceUnused ==
    /\ dice_in = NoDice
    /\ dice_out = NoDice

InitSupabase ==
    /\ InitOrmUnused
    /\ InitRegUnused
    /\ InitDiceUnused
    /\ player_stats \in {{}} \cup {{InitialStats(m)} : m \in 0..MaxInitMoves}
    /\ stats0 = player_stats
    /\ xp_entries = {}
    /\ InitHandlers

NextSupabase ==
    \E h \in Handlers :
        \/ award_assignment_xp(h)
        \/ roll_dice(h)
        \/ bulk_award_students(h)
        \/ update_my_stats(h)

SpecSupabase == InitSupabase /\ [][NextSupabase]_vars

----------------------------------------------------------------------------
(* The SQLAlchemy handlers: admin.py award_student and                     *)
(* reset_student_progress, students.py roll_dice.  A handler runs from its *)
(* first query to db.commit() without awaiting, in one session.            *)

MaxSkillLevel == 5
MaxPosition == 10
SuccessPerSkill == 20
MaxRoll == 100
DefaultSuccessChance == 50

SkillTypes == {"strength", "endurance", "tactics", "climbing", "speed"}
Items == {"water", "gatorade", "first_aid_kit"}

\* PlayerStats(user_id=...) with the column defaults
OrmNewStats(moves) ==
    [user_id |-> Student, total_xp |-> 0, current_xp |-> 0, current_level |-> 1,
     gameboard_xp |-> 0, gameboard_position |-> 1, gameboard_moves |-> moves,
     gold |-> StartingGold, unit_xp |-> NoUnitXp]

\* PlayerSkills(user_id=...) with the column defaults
OrmNewSkills == [user_id |-> Student, skills |-> [k \in SkillTypes |-> 1]]

\* PlayerInventory with the column defaults
OrmNewInventory == [user_id |-> Student, items |-> [i \in Items |-> 0]]

\* gameboard_stations rows
Stations ==
    {[id |-> 1, required_skill |-> "strength", completion_reward_xp |-> 50,
      completion_reward_items |-> [i \in Items |-> IF i = "water" THEN 1 ELSE 0]],
     [id |-> 2, required_skill |-> "tactics", completion_reward_xp |-> 0,
      completion_reward_items |-> [i \in Items |-> 0]]}

StationIds == {st.id : st \in Stations}
Station(id) == CHOOSE st \in Stations : st.id = id

\* AdminAwardRequest
OrmAwardRequests ==
    [kind : {"award"}, type : {"xp"}, target_known : BOOLEAN, amount : {100, 150},
     assignment_id : AssignmentIds \cup {"missing"}, skill_type : {"none"}]
    \cup
    [kind : {"award"}, type : {"bonus_xp"}, target_known : {TRUE}, amount : {200},
     assignment_id : {"none"}, skill_type : {"none"}]
    \cup
    [kind : {"award"}, type : {"gameboard_moves", "gold"}, target_known : {TRUE},
     amount : {1}, assignment_id : {"none"}, skill_type : {"none"}]
    \cup
    [kind : {"award"}, type : {"skill_points"}, target_known : {TRUE},
     amount : {1, 5, 6}, assignment_id : {"none"}, skill_type : {"strength"}]

\* AdminAwardRequest validators: amount > 0; skill points at most 5; an
\* assignment id for xp; a skill type for skill points
AdminAwardRequestValid(a) ==
    /\ a.amount > 0
    /\ ~(a.type = "skill_points" /\ a.amount > MaxSkillLevel)
    /\ ~(a.type = "xp" /\ a.assignment_id = "none")
    /\ ~(a.type = "skill_points" /\ a.skill_type = "none")

\* DiceRollCreate as far as the handler reads it, with the value random.randint draws
OrmRollRequests ==
    [kind : {"roll"}, station_id : StationIds \cup {0}, roll_result : RandInt(1, 100)]

OrmResetRequests == [kind : {"reset"}, student_known : BOOLEAN]

\* the handler's answer, recorded
Answer(req, status) ==
    /\ orm_last' = [req |-> req, status |-> status]
    /\ orm_n' = orm_n + 1

\* a request that raises before db.commit() and whose notification is made
\* all the same
RejectedNotified(req, status) ==
    /\ orm_last' = [req |-> req, status |-> status]
    /\ orm_n' = orm_n + 1
    /\ notify_tasks' = Append(notify_tasks,
          [type |-> "award_notification", user_id |-> Student, request |-> orm_n + 1])
    /\ UNCHANGED <<player_stats, xp_entries, player_skills, player_inventory, dice_rolls>>

\* a request that raises before db.commit(): the session is discarded
Rejected(req, status) ==
    /\ Answer(req, status)
    /\ UNCHANGED <<player_stats, xp_entries, player_skills, player_inventory,
                   dice_rolls, notify_tasks>>

\* the row the session loaded, or the new PlayerStats it added
StatsOrNew == IF player_stats = {} THEN OrmNewStats(0) ELSE FirstRow(player_stats)
SkillsOrNew == IF player_skills = {} THEN OrmNewSkills ELSE FirstRow(player_skills)

\* player_stats.unit_xp[unit_key] += amount: the JSON column is flushed only
\* when the attribute was assigned (the empty dict replaced by a new one)
OrmUnitXp(cur, unit, amount) ==
    IF cur.unit_xp = NoUnitXp
       THEN [cur.unit_xp EXCEPT ![unit] = @ + amount]
       ELSE cur.unit_xp

\* the player_stats row after the award branch of the request's type
OrmAwardedStats(cur, a) ==
    IF a.type = "xp"
       THEN [cur EXCEPT !.current_xp = @ + a.amount,
                        !.total_xp = @ + a.amount,
                        !.unit_xp = OrmUnitXp(cur, Assignment(a.assignment_id).unit_id, a.amount)]
    ELSE IF a.type = "bonus_xp"
       THEN [cur EXCEPT !.current_xp = @ + a.amount, !.total_xp = @ + a.amount]
    ELSE IF a.type = "gameboard_moves"
       THEN [cur EXCEPT !.gameboard_moves = @ + a.amount]
    ELSE IF a.type = "gold"
       THEN [cur EXCEPT !.gold = @ + a.amount]
    ELSE cur

\* new_level = min(5, current_level + award.amount)
OrmAwardedSkills(cur, a) ==
    IF a.type = "skill_points"
       THEN [cur EXCEPT !.skills[a.skill_type] =
                IF @ + a.amount < MaxSkillLevel THEN @ + a.amount ELSE MaxSkillLevel]
       ELSE cur

\* the XPEntry rows the award adds
OrmAwardEntries(a) ==
    IF a.type \in {"xp", "bonus_xp"}
       THEN {[id |-> orm_n + 1, user_id |-> Student,
              assignment_id |-> a.assignment_id, xp_amount |-> a.amount]}
       ELSE {}

\* BaseSchema.Config.use_enum_values: the request's type and skill_type are
\* stored as plain strings, so award.type.value and award.skill_type.value
\* raise AttributeError
use_enum_values == TRUE

\* the tasks made after the commit: the argument of the first create_task
\* reads award.type.value, which raises inside the try block before any task
\* is made, and the except clause logs it
OrmAwardTasks(a) ==
    IF use_enum_values
       THEN <<>>
       ELSE <<[type |-> "award_notification", user_id |-> Student, request |-> orm_n + 1]>>
            \o (IF a.type \in {"xp", "bonus_xp"}
                   THEN <<[type |-> "leaderboard_update", user_id |-> "all_users",
                           request |-> orm_n + 1]>>
                   ELSE <<>>)

\* the answer of a committed award whose notification fails the request
AwardResponseFailing(notify_failed) == IF notify_failed THEN "500" ELSE "200"

\* the answer of a committed award: the except clause of the notification
\* block swallows its error and the handler returns success
AwardResponse(notify_failed) == "200"

\* what ends the handler before db.commit() has completed: the schema's 422,
\* the 404 of an unknown student or assignment, the AttributeError of
\* award.skill_type.value on the skill branch, a failing commit
OrmAwardError(a, commit_ok) ==
    IF ~AdminAwardRequestValid(a) THEN "422"
    ELSE IF ~a.target_known THEN "404"
    ELSE IF a.type = "xp" /\ a.assignment_id \notin AssignmentIds THEN "404"
    ELSE IF a.type = "skill_points" /\ use_enum_values THEN "500"
    ELSE IF ~commit_ok THEN "500"
    ELSE "none"

award_student ==
    /\ orm_n < MaxOrmRequests
    /\ \E a \in OrmAwardRequests : \E commit_ok \in BOOLEAN :
         IF OrmAwardError(a, commit_ok) # "none"
            THEN Rejected(a, OrmAwardError(a, commit_ok))
            ELSE /\ player_stats' = {OrmAwardedStats(StatsOrNew, a)}
                 /\ xp_entries' = xp_entries \cup OrmAwardEntries(a)
                 /\ player_skills' =
                       IF a.type = "skill_points"
                          THEN {OrmAwardedSkills(SkillsOrNew, a)}
                          ELSE player_skills
                 /\ notify_tasks' = notify_tasks \o OrmAwardTasks(a)
                 /\ Answer(a, AwardResponse(use_enum_values))
                 /\ UNCHANGED <<player_inventory, dice_rolls>>
    /\ UNCHANGED <<handlerVars, stats0, regVars, diceVars>>

\* success_chance = skill_level * 20
SuccessChance(skill_level) == skill_level * SuccessPerSkill

\* was_successful = roll_result <= success_chance
OrmWasSuccessful(roll_result, success_chance) == roll_result <= success_chance

\* the player_stats row after an accepted roll
OrmRolledStats(cur, st, success) ==
    LET moved == [cur EXCEPT !.gameboard_moves = @ - 1]
        paid == IF success /\ st.completion_reward_xp > 0
                   THEN [moved EXCEPT !.gameboard_xp = @ + st.completion_reward_xp,
                                      !.total_xp = @ + st.completion_reward_xp,
                                      !.current_xp = @ + st.completion_reward_xp]
                   ELSE moved
    IN  IF success /\ paid.gameboard_position = st.id
           THEN [paid EXCEPT !.gameboard_position =
                    IF @ + 1 < MaxPosition THEN @ + 1 ELSE MaxPosition]
           ELSE paid

\* the inventory after an accepted roll
OrmRolledInventory(st, success) ==
    IF success
       THEN {[inv EXCEPT !.items =
                 [i \in Items |-> @[i] + st.completion_reward_items[i]]] :
                     inv \in player_inventory}
       ELSE player_inventory

orm_roll_dice ==
    /\ orm_n < MaxOrmRequests
    /\ \E r \in OrmRollRequests : \E commit_ok \in BOOLEAN :
         IF player_stats = {} \/ FirstRow(player_stats).gameboard_moves <= 0
            THEN Rejected(r, "400")
         ELSE IF r.station_id \notin StationIds THEN Rejected(r, "404")
         ELSE IF player_skills = {} THEN Rejected(r, "400")
         ELSE IF ~commit_ok THEN Rejected(r, "500")
         ELSE LET st == Station(r.station_id)
                  skill_level == FirstRow(player_skills).skills[st.required_skill]
                  success_chance == SuccessChance(skill_level)
                  was_successful == OrmWasSuccessful(r.roll_result, success_chance)
              IN  /\ dice_rolls' = dice_rolls \cup
                        {[id |-> orm_n + 1, station_id |-> st.id,
                          skill_level |-> skill_level,
                          success_chance |-> success_chance,
                          roll_result |-> r.roll_result,
                          was_successful |-> was_successful]}
                  /\ player_stats' =
                        {OrmRolledStats(FirstRow(player_stats), st, was_successful)}
                  /\ xp_entries' =
                        IF was_successful /\ st.completion_reward_xp > 0
                           THEN xp_entries \cup
                                  {[id |-> orm_n + 1, user_id |-> Student,
                                    assignment_id |-> "none",
                                    xp_amount |-> st.completion_reward_xp]}
                           ELSE xp_entries
                  /\ player_inventory' = OrmRolledInventory(st, was_successful)
                  /\ Answer(r, "200")
                  /\ UNCHANGED <<player_skills, notify_tasks>>
    /\ UNCHANGED <<handlerVars, stats0, regVars, diceVars>>

reset_student_progress ==
    /\ orm_n < MaxOrmRequests
    /\ \E r \in OrmResetRequests : \E commit_ok \in BOOLEAN :
         IF ~r.student_known THEN Rejected(r, "404")
         ELSE IF ~commit_ok THEN Rejected(r, "500")
         ELSE /\ player_stats' =
                    {[s EXCEPT !.current_xp = 0, !.total_xp = 0, !.current_level = 1,
                               !.gameboard_xp = 0, !.gameboard_position = 1,
                               !.gameboard_moves = 0, !.gold = 0,
                               !.unit_xp = NoUnitXp] : s \in player_stats}
              /\ player_skills' =
                    {[k EXCEPT !.skills = [x \in SkillTypes |-> 1]] : k \in player_skills}
              /\ player_inventory' =
                    {[inv EXCEPT !.items = [i \in Items |-> 0]] : inv \in player_inventory}
              /\ Answer(r, "200")
              /\ UNCHANGED <<xp_entries, dice_rolls, notify_tasks>>
    /\ UNCHANGED <<handlerVars, stats0, regVars, diceVars>>

InitOrm ==
    /\ player_stats \in {{}} \cup {{OrmNewStats(m)} : m \in 0..MaxInitMoves}
    /\ stats0 = player_stats
    /\ xp_entries = {}
    /\ player_skills \in {{}, {OrmNewSkills}}
    /\ player_inventory \in {{}, {OrmNewInventory}}
    /\ dice_rolls = {}
    /\ notify_tasks = <<>>
    /\ orm_last = [req |-> NoReq, status |-> "none"]
    /\ orm_n = 0
    /\ InitHandlers
    /\ InitRegUnused
    /\ InitDiceUnused

NextOrm ==
    \/ award_student
    \/ orm_roll_dice
    \/ reset_student_progress

SpecOrm == InitOrm /\ [][NextOrm]_vars

----------------------------------------------------------------------------
(* websocket_manager.py ConnectionManager.  The dictionaries are functions *)
(* whose DOMAIN is the set of keys present.                                *)

AllUsersRoom == "all_users"
RoomNames == {AllUsersRoom, "unit-3"}

\* d[k] = v
Put(d, k, v) == [x \in DOMAIN d \cup {k} |-> IF x = k THEN v ELSE d[x]]

\* del d[k]
Del(d, k) == [x \in DOMAIN d \ {k} |-> d[x]]

\* ConnectionManager.join_room
JoinRoom(m, ws, room_name) ==
    LET rooms1 == IF room_name \notin DOMAIN m.rooms
                     THEN Put(m.rooms, room_name, {})
                     ELSE m.rooms
    IN  [m EXCEPT !.rooms = [rooms1 EXCEPT ![room_name] = @ \cup {ws}]]

\* ConnectionManager.leave_room
LeaveRoom(m, ws, room_name) ==
    IF room_name \in DOMAIN m.rooms
       THEN LET left == m.rooms[room_name] \ {ws}
            IN  IF left = {}
                   THEN [m EXCEPT !.rooms = Del(m.rooms, room_name)]
                   ELSE [m EXCEPT !.rooms[room_name] = left]
       ELSE m

\* ConnectionManager.connect after websocket.accept(): the user index, the
\* metadata, the counter and the default room
Register(m, ws, user_id) ==
    LET conns == IF user_id \notin DOMAIN m.connections
                    THEN Put(m.connections, user_id, {})
                    ELSE m.connections
        m1 == [m EXCEPT
                 !.connections = [conns EXCEPT ![user_id] = @ \cup {ws}],
                 !.connection_data = Put(m.connection_data, ws,
                                         [user_id |-> user_id, connection_id |-> ws]),
                 !.connection_count = @ + 1]
    IN  JoinRoom(m1, ws, AllUsersRoom)

\* a disconnect that counts down also for a socket it does not know
DisconnectUncounted(m, ws) ==
    IF ws \notin DOMAIN m.connection_data
       THEN [m EXCEPT !.connection_count = @ - 1]
       ELSE LET user_id == m.connection_data[ws].user_id
                rest == m.connections[user_id] \ {ws}
            IN  [connections |-> IF rest = {}
                                    THEN Del(m.connections, user_id)
                                    ELSE [m.connections EXCEPT ![user_id] = rest],
                 rooms |-> [r \in DOMAIN m.rooms |-> m.rooms[r] \ {ws}],
                 connection_data |-> Del(m.connection_data, ws),
                 connection_count |-> m.connection_count - 1]

\* ConnectionManager.disconnect
Disconnect(m, ws) ==
    IF ws \notin DOMAIN m.connection_data
       THEN m
       ELSE LET user_id == m.connection_data[ws].user_id
                conns == IF user_id \in DOMAIN m.connections
                            THEN LET rest == m.connections[user_id] \ {ws}
                                 IN  IF rest = {}
                                        THEN Del(m.connections, user_id)
                                        ELSE [m.connections EXCEPT ![user_id] = rest]
                            ELSE m.connections
            IN  [connections |-> conns,
                 rooms |-> [r \in DOMAIN m.rooms |-> m.rooms[r] \ {ws}],
                 connection_data |-> Del(m.connection_data, ws),
                 connection_count |-> m.connection_count - 1]

----------------------------------------------------------------------------
(* realtime.py websocket_endpoint, one per socket, and the client's side   *)
(* of the transport.  The endpoint is suspended only in accept, send_text  *)
(* and receive_text; what runs between two of them is one step.            *)

\* what a client may send: text that is no JSON, or a JSON message
ClientMessages ==
    {[type |-> "badjson", room |-> ""]}
    \cup [type : {"ping", "request_leaderboard", "request_profile", "unknown"}, room : {""}]
    \cup [type : {"join_room", "leave_room"}, room : RoomNames \cup {""}]

\* the token of the handshake, by what lines 27-35 make of it: none, one
\* get_user_from_token has no user for, one of a user whose id is not the
\* path's user_id, one of the user of the path
Tokens == {"missing", "invalid", "other_user", "valid"}

\* an endpoint whose receive_text and error send both raise at once, for ever:
\* its loop never awaits, so nothing else of the server runs any more
Spinning == \E s \in Sockets : ws_pc[s] = "spinning"

\* the authentication of the handshake with every token passing
WsAuthenticateUnchecked(s) ==
    /\ ~Spinning
    /\ ws_pc[s] = "init"
    /\ \E user_id \in UserIds : \E token \in Tokens :
         /\ ws_user' = [ws_user EXCEPT ![s] = user_id]
         /\ ws_token' = [ws_token EXCEPT ![s] = token]
         /\ ws_pc' = [ws_pc EXCEPT ![s] = "accept"]
    /\ UNCHANGED <<manager, ws_open, inq, ws_reply, ws_dead, bcast>>
    /\ UNCHANGED <<storeVars, handlerVars, stats0, ormVars, diceVars>>

\* the authentication of the handshake: close(4001), close(4003) or go on
WsAuthenticate(s) ==
    /\ ~Spinning
    /\ ws_pc[s] = "init"
    /\ \E user_id \in UserIds : \E token \in Tokens :
         /\ ws_user' = [ws_user EXCEPT ![s] = user_id]
         /\ ws_token' = [ws_token EXCEPT ![s] = token]
         /\ ws_pc' = [ws_pc EXCEPT ![s] = IF token = "valid" THEN "accept" ELSE "rejected"]
    /\ UNCHANGED <<manager, ws_open, inq, ws_reply, ws_dead, bcast>>
    /\ UNCHANGED <<storeVars, handlerVars, stats0, ormVars, diceVars>>

\* connection_manager.connect up to its confirmation send
WsAccept(s) ==
    /\ ~Spinning
    /\ ws_pc[s] = "accept"
    /\ manager' = Register(manager, s, ws_user[s])
    /\ ws_pc' = [ws_pc EXCEPT ![s] = "send"]
    /\ ws_reply' = [ws_reply EXCEPT ![s] = "connection_established"]
    /\ UNCHANGED <<ws_user, ws_token, ws_open, inq, ws_dead, bcast>>
    /\ UNCHANGED <<storeVars, handlerVars, stats0, ormVars, diceVars>>

\* websocket.send_text returns when the peer has the transport open and the
\* socket has not been marked disconnected; otherwise it raises
SendSucceeds(s) == ws_open[s] /\ ~ws_dead[s]

\* whether the socket is marked disconnected after a send: a failed send marks
\* it when the server's error is an OSError (the transport library decides)
DeadAfterSend(s, os_error) == ws_dead[s] \/ (~SendSucceeds(s) /\ os_error)

\* the errors a send_text on socket s can end with
SendErrors(s) == IF SendSucceeds(s) THEN {FALSE} ELSE BOOLEAN

\* the endpoint calls receive_text: on a socket marked disconnected it
\* raises RuntimeError at once, the except clause's error send raises too,
\* and the loop goes round for ever
CallReceive(dead) == IF dead THEN "spinning" ELSE "recv"

\* ConnectionManager.send_personal_message: a send_text that raises is caught
\* and the connection disconnected.  The endpoint goes on to its receive
\* loop: send_initial_data, which follows the confirmation, imports
\* get_player_profile_data from app.api.students, which does not define it,
\* and its except clause ends it before any send.
WsSend(s) ==
    /\ ~Spinning
    /\ ws_pc[s] = "send"
    /\ \E os_error \in SendErrors(s) :
         /\ ws_dead' = [ws_dead EXCEPT ![s] = DeadAfterSend(s, os_error)]
         /\ ws_pc' = [ws_pc EXCEPT ![s] = CallReceive(DeadAfterSend(s, os_error))]
    /\ manager' = IF SendSucceeds(s) THEN manager ELSE Disconnect(manager, s)
    /\ ws_reply' = [ws_reply EXCEPT ![s] = "none"]
    /\ UNCHANGED <<ws_user, ws_token, ws_open, inq, bcast>>
    /\ UNCHANGED <<storeVars, handlerVars, stats0, ormVars, diceVars>>

\* handle_client_message up to its send: the registry after the message
HandledManager(m, s, msg) ==
    IF msg.type = "join_room" /\ msg.room # "" THEN JoinRoom(m, s, msg.room)
    ELSE IF msg.type = "leave_room" /\ msg.room # "" THEN LeaveRoom(m, s, msg.room)
    ELSE m

\* every message answered alike, unknown ones with nothing
ReplyToSilent(msg) ==
    IF msg.type = "ping" THEN "pong" ELSE "none"

\* the message handle_client_message (or the endpoint's except) sends back;
\* request_profile fails on the same import and the endpoint answers error
ReplyTo(msg) ==
    IF msg.type = "badjson" THEN "error"
    ELSE IF msg.type = "ping" THEN "pong"
    ELSE IF msg.type = "request_leaderboard" THEN "leaderboard_update"
    ELSE IF msg.type = "request_profile" THEN "error"
    ELSE IF msg.type = "join_room" THEN (IF msg.room # "" THEN "room_joined" ELSE "none")
    ELSE IF msg.type = "leave_room" THEN (IF msg.room # "" THEN "room_left" ELSE "none")
    ELSE "error"

\* receive_text returns the next queued client message
WsReceive(s) ==
    /\ ~Spinning
    /\ ws_pc[s] = "recv"
    /\ inq[s] # <<>>
    /\ LET msg == Head(inq[s])
       IN  /\ manager' = HandledManager(manager, s, msg)
           /\ ws_reply' = [ws_reply EXCEPT ![s] = ReplyTo(msg)]
           /\ ws_pc' = [ws_pc EXCEPT ![s] =
                 IF ReplyTo(msg) = "none" THEN CallReceive(ws_dead[s]) ELSE "send"]
    /\ inq' = [inq EXCEPT ![s] = Tail(@)]
    /\ UNCHANGED <<ws_user, ws_token, ws_open, ws_dead, bcast>>
    /\ UNCHANGED <<storeVars, handlerVars, stats0, ormVars, diceVars>>

\* receive_text raises WebSocketDisconnect: break, then the finally clause
WsDisconnected(s) ==
    /\ ~Spinning
    /\ ws_pc[s] = "recv"
    /\ inq[s] = <<>>
    /\ ~ws_open[s]
    /\ manager' = Disconnect(manager, s)
    /\ ws_pc' = [ws_pc EXCEPT ![s] = "closed"]
    /\ UNCHANGED <<ws_user, ws_token, ws_open, inq, ws_reply, ws_dead, bcast>>
    /\ UNCHANGED <<storeVars, handlerVars, stats0, ormVars, diceVars>>

Accepted(s) == ws_pc[s] \in {"send", "recv"}

\* the client sends one of msgs on an accepted connection
ClientSendOf(s, msgs) ==
    /\ Accepted(s)
    /\ ws_open[s]
    /\ Len(inq[s]) < MaxQueue
    /\ \E msg \in msgs : inq' = [inq EXCEPT ![s] = Append(@, msg)]
    /\ UNCHANGED <<manager, ws_pc, ws_user, ws_token, ws_open, ws_reply, ws_dead, bcast>>
    /\ UNCHANGED <<storeVars, handlerVars, stats0, ormVars, diceVars>>

\* the client sends any message
ClientSend(s) == ClientSendOf(s, ClientMessages)

\* the client's side of the transport goes away
ClientClose(s) ==
    /\ ws_pc[s] \in {"accept", "send", "recv"}
    /\ ws_open[s]
    /\ ws_open' = [ws_open EXCEPT ![s] = FALSE]
    /\ UNCHANGED <<manager, ws_pc, ws_user, ws_token, inq, ws_reply, ws_dead, bcast>>
    /\ UNCHANGED <<storeVars, handlerVars, stats0, ormVars, diceVars>>

----------------------------------------------------------------------------
(* websocket_manager.py send_to_user and broadcast_to_room: a loop over a  *)
(* copy of the socket set, suspended in each send_text, and the cleanup of *)
(* the sockets whose send raised.                                          *)

\* the calls the repository makes: send_to_user for a user (the award
\* notification) and broadcast_to_room for the room of broadcast_to_all
Dispatches ==
    [kind : {"user"}, key : UserIds] \cup [kind : {"room"}, key : {AllUsersRoom}]

\* a copy that holds one socket of the set only
TargetsOne(m, d) ==
    LET all == IF d.kind = "user"
                  THEN (IF d.key \in DOMAIN m.connections THEN m.connections[d.key] ELSE {})
                  ELSE (IF d.key \in DOMAIN m.rooms THEN m.rooms[d.key] ELSE {})
    IN  IF all = {} THEN {} ELSE {CHOOSE ws \in all : TRUE}

\* self.connections[user_id].copy() or self.rooms[room_name].copy(); the
\* call returns at once when the key is absent
Targets(m, d) ==
    IF d.kind = "user"
       THEN (IF d.key \in DOMAIN m.connections THEN m.connections[d.key] ELSE {})
       ELSE (IF d.key \in DOMAIN m.rooms THEN m.rooms[d.key] ELSE {})

\* for websocket in disconnected_connections: await self.disconnect(websocket)
RECURSIVE DisconnectAll(_, _)
DisconnectAll(m, wss) ==
    IF wss = {}
       THEN m
       ELSE LET ws == CHOOSE x \in wss : TRUE
            IN  DisconnectAll(Disconnect(m, ws), wss \ {ws})

\* the calls that have been made and have not returned
InFlight == {c \in Broadcasts : bcast[c].pc # "idle"}

\* the call is made: the copy is taken and the first send_text awaited (a
\* call for an absent key or an empty set returns at once and changes nothing)
BcastBegin(b) ==
    /\ ~Spinning
    /\ bcast[b].pc = "idle"
    /\ \E d \in Dispatches :
         /\ Targets(manager, d) # {}
         /\ \E first \in Targets(manager, d) :
              bcast' = [bcast EXCEPT ![b] =
                 [NoBroadcast EXCEPT !.pc = "sending", !.kind = d.kind,
                                     !.key = d.key, !.cur = first,
                                     !.todo = Targets(manager, d) \ {first},
                                     !.after = InFlight]]
    /\ UNCHANGED <<manager, ws_pc, ws_user, ws_token, ws_open, inq, ws_reply, ws_dead>>
    /\ UNCHANGED <<storeVars, handlerVars, stats0, ormVars, diceVars>>

\* the peer of the awaited send_text has stopped reading: the await does not
\* return while the transport stays open
BcastStalls(b) ==
    /\ ~Spinning
    /\ bcast[b].pc = "sending"
    /\ SendSucceeds(bcast[b].cur)
    /\ bcast' = [bcast EXCEPT ![b].pc = "stalled"]
    /\ UNCHANGED <<manager, ws_pc, ws_user, ws_token, ws_open, inq, ws_reply, ws_dead>>
    /\ UNCHANGED <<storeVars, handlerVars, stats0, ormVars, diceVars>>

\* the awaited send_text returns or raises; the loop awaits the next one or,
\* after the last, the failed sockets are disconnected and the call returns
BcastSendReturns(b) ==
    /\ ~Spinning
    /\ \/ bcast[b].pc = "sending"
       \/ bcast[b].pc = "stalled" /\ ~ws_open[bcast[b].cur]
    /\ LET t == bcast[b]
           sent1 == IF SendSucceeds(t.cur) THEN t.sent \cup {t.cur} ELSE t.sent
           failed1 == IF SendSucceeds(t.cur) THEN t.failed ELSE t.failed \cup {t.cur}
       IN  /\ \E os_error \in SendErrors(t.cur) :
                ws_dead' = [ws_dead EXCEPT ![t.cur] = DeadAfterSend(t.cur, os_error)]
           /\ IF t.todo = {}
                 THEN /\ manager' = DisconnectAll(manager, failed1)
                      /\ bcast' = [c \in Broadcasts |->
                            IF c = b THEN NoBroadcast
                                     ELSE [bcast[c] EXCEPT !.after = @ \ {b}]]
                 ELSE /\ manager' = manager
                      /\ \E next \in t.todo :
                            bcast' = [bcast EXCEPT ![b] =
                               [t EXCEPT !.pc = "sending", !.cur = next,
                                         !.todo = t.todo \ {next},
                                         !.sent = sent1, !.failed = failed1]]
    /\ UNCHANGED <<ws_pc, ws_user, ws_token, ws_open, inq, ws_reply>>
    /\ UNCHANGED <<storeVars, handlerVars, stats0, ormVars, diceVars>>

InitStoreUnused ==
    /\ player_stats = {}
    /\ stats0 = {}
    /\ xp_entries = {}
    /\ InitHandlers
    /\ InitOrmUnused

InitReg ==
    /\ InitRegUnused
    /\ InitStoreUnused
    /\ InitDiceUnused

NextReg ==
    \/ \E s \in Sockets :
          \/ WsAuthenticate(s)
          \/ WsAccept(s)
          \/ WsSend(s)
          \/ WsReceive(s)
          \/ WsDisconnected(s)
          \/ ClientSend(s)
          \/ ClientClose(s)

SpecReg == InitReg /\ [][NextReg]_vars

\* one call in flight at a time
OneBroadcast == {1}

\* the room messages of a client, while notifications are being sent
RoomMessages == [type : {"join_room", "leave_room"}, room : {AllUsersRoom}]

ClientSendsRoom(s) == ClientSendOf(s, RoomMessages)

NextBcast ==
    \/ \E s \in Sockets :
          \/ WsAuthenticate(s)
          \/ WsAccept(s)
          \/ WsSend(s)
          \/ WsReceive(s)
          \/ WsDisconnected(s)
          \/ ClientSendsRoom(s)
          \/ ClientClose(s)
    \/ \E b \in OneBroadcast :
          \/ BcastBegin(b)
          \/ BcastStalls(b)
          \/ BcastSendReturns(b)

SpecBcast == InitReg /\ [][NextBcast]_vars

\* several calls in flight, to sockets that connect and close and send nothing
NextFifo ==
    \/ \E s \in Sockets :
          \/ WsAuthenticate(s)
          \/ WsAccept(s)
          \/ WsSend(s)
          \/ WsDisconnected(s)
          \/ ClientClose(s)
    \/ \E b \in Broadcasts :
          \/ BcastBegin(b)
          \/ BcastStalls(b)
          \/ BcastSendReturns(b)

SpecFifo == InitReg /\ [][NextFifo]_vars

----------------------------------------------------------------------------
(* The outcome of a dice roll as the two roll_dice handlers compute it,    *)
(* for every skill level and every value random.randint(1, 100) draws.     *)

\* the inputs of one roll: the player's skill level, the drawn value, and the
\* success_chance the Supabase handler takes from the request body
DiceInputs ==
    [path : {"input"}, skill_level : 1..MaxSkillLevel, roll_result : 1..MaxRoll,
     success_chance : {DefaultSuccessChance, 3 * SuccessPerSkill}]

\* students.py roll_dice: success_chance from the stored skill level
DiceOrm ==
    /\ dice_out = NoDice
    /\ dice_out' =
          [path |-> "orm",
           success_chance |-> SuccessChance(dice_in.skill_level),
           was_successful |->
              OrmWasSuccessful(dice_in.roll_result, SuccessChance(dice_in.skill_level))]
    /\ UNCHANGED <<dice_in, storeVars, handlerVars, stats0, ormVars, regVars>>

\* students_supabase.py roll_dice: success_chance as the client sent it
DiceSupabase ==
    /\ dice_out = NoDice
    /\ dice_out' =
          [path |-> "supabase",
           success_chance |-> dice_in.success_chance,
           was_successful |-> WasSuccessful(dice_in)]
    /\ UNCHANGED <<dice_in, storeVars, handlerVars, stats0, ormVars, regVars>>

InitDice ==
    /\ dice_in \in DiceInputs
    /\ dice_out = NoDice
    /\ InitRegUnused
    /\ InitStoreUnused

NextDice ==
    \/ DiceOrm
    \/ DiceSupabase

SpecDice == InitDice /\ [][NextDice]_vars

----------------------------------------------------------------------------
(* Properties of the mutation handlers *)

AllDone == \A h \in Handlers : hpc[h] = "done"

RECURSIVE SumAwarded(_)
SumAwarded(hs) ==
    IF hs = {} THEN 0
    ELSE LET h == CHOOSE x \in hs : TRUE
         IN  hreq[h].xp_awarded + SumAwarded(hs \ {h})

InitialTotalXp == IF stats0 = {} THEN 0 ELSE FirstRow(stats0).total_xp

\* C1: once every one of a set of concurrently issued valid awards for the
\* user has been answered with success, the stored total_xp is the initial
\* total_xp plus the sum of all the awarded amounts (no lost update).
C1_AwardsSerialized ==
    (/\ AllDone
     /\ \A h \in Handlers :
           hreq[h].kind = "award" /\ hreq[h].xp_awarded > 0 /\ hresp[h] = "200")
        => \A r \in SelectStats(Student) :
               r.total_xp = InitialTotalXp + SumAwarded(Handlers)

AcceptedRolls == {h \in Handlers : hreq[h].kind = "roll" /\ hresp[h] = "200"}
RejectedRolls == {h \in Handlers : hreq[h].kind = "roll" /\ hresp[h] = "no_moves"}

\* C2: starting from gameboard_moves = 1, when roll-dice requests for the
\* user have all been answered (none with a storage error), exactly one was
\* accepted, every other one was rejected for lack of moves, and
\* gameboard_moves is 0.
C2_OneRollPerMove ==
    (/\ stats0 = {InitialStats(1)}
     /\ AllDone
     /\ AcceptedRolls \cup RejectedRolls = Handlers)
        => /\ Cardinality(AcceptedRolls) = 1
           /\ \A r \in SelectStats(Student) : r.gameboard_moves = 0

\* C4: no step of the mutation handlers lowers the stored total_xp of the user.
C4_TotalXpMonotone ==
    [][\A r \in player_stats : \A q \in player_stats' :
          r.user_id = q.user_id => q.total_xp >= r.total_xp]_vars

\* C5: gameboard_moves of every stored row is at least 0.
C5_MovesNonNegative == \A r \in player_stats : r.gameboard_moves >= 0

\* C6: every stored XP entry belongs to a request whose update of
\* player_stats was stored too, once that request has been answered.
C6_NoPhantomAward ==
    \A e \in xp_entries : hpc[e.id] = "done" => hwrote[e.id]

\* C8: an answered award or roll never leaves only part of its writes in
\* storage: its XP entry is stored exactly when its player_stats update is,
\* and a request answered with a storage failure has stored nothing.
C8_MutationIsAUnit ==
    \A h \in Handlers :
        (hpc[h] = "done" /\ hreq[h].kind \in {"award", "roll"})
            => /\ (\E e \in xp_entries : e.id = h) <=> hwrote[h]
               /\ hresp[h] = "500" => ~hwrote[h]

\* C3: in every stored player_stats row current_level is
\* floor(total_xp / 200) + 1.
C3_LevelDerivedFromTotalXp ==
    \A r \in player_stats : r.current_level = (r.total_xp \div XpPerLevel) + 1

\* an XP award naming no known assignment or exceeding the assignment's max_xp
InvalidAward(a) ==
    /\ a.kind = "award"
    /\ a.type = "xp"
    /\ \/ a.assignment_id \notin AssignmentIds
       \/ a.amount > Assignment(a.assignment_id).max_xp

\* no stored move to roll with
NoMovesLeft == \A r \in player_stats : r.gameboard_moves <= 0

\* C7: a request with invalid input (an award for an unknown assignment or
\* above the assignment's max_xp, a roll with no move left) is answered with
\* an error, changes neither player_stats nor xp_entries and makes no
\* notification task.
C7_InvalidInputRejected ==
    [][(/\ orm_n' = orm_n + 1
        /\ \/ InvalidAward(orm_last'.req)
           \/ orm_last'.req.kind = "roll" /\ NoMovesLeft)
          => /\ orm_last'.status # "200"
             /\ UNCHANGED <<player_stats, xp_entries, notify_tasks>>]_vars

\* gameboard_moves of the student's stored row
StoredMoves(rows) == FirstRow(rows).gameboard_moves

\* C17: every accepted dice roll decreases gameboard_moves by exactly 1,
\* whether it succeeds or fails: the step in which a roll writes its update
\* leaves the stored gameboard_moves one below what it was, and a roll that
\* is answered no-moves-available writes nothing.
C17_RollConsumesOneMove ==
    [][\A h \in Handlers :
          /\ (hreq[h].kind = "roll" /\ hpc[h] = "roll_update" /\ hwrote'[h])
                => StoredMoves(player_stats') = StoredMoves(player_stats) - 1
          /\ (hreq[h].kind = "roll" /\ hpc[h] = "roll_select" /\ hresp'[h] = "no_moves")
                => player_stats' = player_stats /\ xp_entries' = xp_entries]_vars

\* C19: a failed dice roll applies no reward: its xp_gained and gold_gained
\* are zero and it adds no XP entry.
C19_FailedRollNoReward ==
    \A h \in Handlers :
        (hreq[h].kind = "roll" /\ ~WasSuccessful(hreq[h]))
           => /\ hrew[h] = NoRewards
              /\ \A e \in xp_entries : e.id # h

Min(a, b) == IF a < b THEN a ELSE b

\* C18: for every skill level L in 1..5 and every drawn value d in 1..100
\* the roll's outcome is success exactly when d <= min(100, L * 20), whatever
\* else the request carries.
C18_DiceOutcome ==
    dice_out # NoDice
       => (dice_out.was_successful
             <=> dice_in.roll_result <= Min(100, dice_in.skill_level * 20))

NewTasks == SubSeq(notify_tasks', Len(notify_tasks) + 1, Len(notify_tasks'))

\* C16: after any committed mutation of the student's state a progress_update
\* for that student is dispatched (so that each of the student's connections
\* is sent one).
C16_ProgressUpdateAfterMutation ==
    orm_last.status = "200"
       => \E i \in DOMAIN notify_tasks :
             /\ notify_tasks[i].type = "progress_update"
             /\ notify_tasks[i].user_id = Student
             /\ notify_tasks[i].request = orm_n

----------------------------------------------------------------------------
(* Properties of the connection registry *)

InSomeRoom(m, ws) == \E r \in DOMAIN m.rooms : ws \in m.rooms[r]

\* C9: disconnect is idempotent, and after disconnect(ws) the socket is a
\* member of no room: from every state of the registry, disconnecting a
\* socket leaves it in no room and disconnecting it again changes nothing.
C9_DisconnectIdempotent ==
    \A ws \in Sockets :
        LET m1 == Disconnect(manager, ws)
        IN  /\ Disconnect(m1, ws) = m1
            /\ ~InSomeRoom(m1, ws)

IsMember(m, ws, room_name) ==
    room_name \in DOMAIN m.rooms /\ ws \in m.rooms[room_name]

\* C10: join_room and leave_room are idempotent: joining a room the socket
\* is already in, and leaving a room it is not in, leave the rooms map as it
\* was.
C10_RoomOpsIdempotent ==
    \A ws \in Sockets : \A room_name \in RoomNames :
        /\ IsMember(manager, ws, room_name)
              => JoinRoom(manager, ws, room_name).rooms = manager.rooms
        /\ ~IsMember(manager, ws, room_name)
              => LeaveRoom(manager, ws, room_name).rooms = manager.rooms

\* the socket is in no part of the registry: not in the metadata map, not in
\* any user's set of the user index, in no room
Unregistered(m, ws) ==
    /\ ws \notin DOMAIN m.connection_data
    /\ \A u \in DOMAIN m.connections : ws \notin m.connections[u]
    /\ ~InSomeRoom(m, ws)

RejectedTokens == {"missing", "invalid", "other_user"}

\* C14: a connection whose handshake token is missing, invalid or another
\* user's is closed without ever being registered: its endpoint is in the
\* rejected state (never accepted, sending or receiving), and the socket is
\* in no user's set, not in the metadata map and in no room.
C14_RejectedNeverRegistered ==
    \A s \in Sockets :
        ws_token[s] \in RejectedTokens
            => /\ ws_pc[s] = "rejected"
               /\ Unregistered(manager, s)

\* C14 witness: a handshake with another user's token has been rejected while
\* another connection is registered and in its default room.
C14_Witness ==
    \E s \in Sockets : \E t \in Sockets :
        /\ ws_token[s] = "other_user"
        /\ ws_pc[s] = "rejected"
        /\ t \in DOMAIN manager.connection_data
        /\ IsMember(manager, t, AllUsersRoom)

MalformedTypes == {"badjson", "unknown"}

\* C15: when a healthy connection (transport open, socket not marked
\* disconnected) sends text that is no JSON or a message of unknown type, the
\* step that receives it prepares an error event and leaves the registry as
\* it was, and the step that sends the error event leaves the registry as it
\* was and returns to the receive loop.
C15_MalformedAnsweredWithError ==
    [][\A s \in Sockets :
          /\ ( /\ ws_pc[s] = "recv"
               /\ SendSucceeds(s)
               /\ inq[s] # <<>>
               /\ Head(inq[s]).type \in MalformedTypes
               /\ inq'[s] = Tail(inq[s]) )
                => /\ ws_reply'[s] = "error"
                   /\ ws_pc'[s] = "send"
                   /\ manager' = manager
          /\ ( /\ ws_pc[s] = "send"
               /\ ws_reply[s] = "error"
               /\ SendSucceeds(s)
               /\ ws_pc'[s] # "send" )
                => /\ ws_pc'[s] = "recv"
                   /\ manager' = manager
                   /\ ws_dead'[s] = FALSE]_vars

\* C15 witness: the error event is about to be sent on a healthy connection
\* that is registered and in a room it joined besides the default one.
C15_Witness ==
    \E s \in Sockets : \E r \in RoomNames \ {AllUsersRoom} :
        /\ ws_pc[s] = "send"
        /\ ws_reply[s] = "error"
        /\ SendSucceeds(s)
        /\ s \in DOMAIN manager.connection_data
        /\ IsMember(manager, s, AllUsersRoom)
        /\ IsMember(manager, s, r)

\* the next step of the endpoint of socket s, whichever it is
HandlerStep(s) ==
    WsAccept(s) \/ WsSend(s) \/ WsReceive(s) \/ WsDisconnected(s)

\* C13: after the transport of an accepted connection has closed, the
\* endpoint can always take its next step towards leaving the receive loop
\* (it is never stuck short of the closed state), an endpoint that has left
\* the loop has its socket out of the metadata map and the user index, and
\* the connection count is the number of registered sockets (the cleanup was
\* counted once).
C13_ClosedTransportCleansUp ==
    \A s \in Sockets :
        /\ (~ws_open[s] /\ ws_pc[s] \in {"accept", "send", "recv", "spinning"})
              => ENABLED HandlerStep(s)
        /\ ws_pc[s] = "closed"
              => /\ s \notin DOMAIN manager.connection_data
                 /\ \A u \in DOMAIN manager.connections : s \notin manager.connections[u]
        /\ manager.connection_count = Cardinality(DOMAIN manager.connection_data)

\* socket ws is registered in m2 exactly as in m1: same metadata entry, same
\* sets of the user index, same rooms
SameRegistration(m1, m2, ws) ==
    /\ (ws \in DOMAIN m2.connection_data) = (ws \in DOMAIN m1.connection_data)
    /\ \A u \in UserIds :
          (u \in DOMAIN m2.connections /\ ws \in m2.connections[u])
             = (u \in DOMAIN m1.connections /\ ws \in m1.connections[u])
    /\ \A r \in RoomNames : IsMember(m2, ws, r) = IsMember(m1, ws, r)

\* C11: when a send_to_user or broadcast_to_room call returns, every socket
\* whose send failed is deregistered (in no part of the registry) and every
\* other socket is registered as it was before, rooms included; every
\* targeted socket was either sent the message or failed, never both.
C11_FailedSendDeregistersOnlyThatSocket ==
    [][\A b \in Broadcasts :
          (bcast[b].pc \in {"sending", "stalled"} /\ bcast'[b].pc = "idle")
             => LET t == bcast[b]
                    sent == IF SendSucceeds(t.cur) THEN t.sent \cup {t.cur} ELSE t.sent
                    failed == IF SendSucceeds(t.cur) THEN t.failed ELSE t.failed \cup {t.cur}
                IN  /\ \A ws \in failed : Unregistered(manager', ws)
                    /\ \A ws \in Sockets \ failed : SameRegistration(manager, manager', ws)
                    /\ sent \cap failed = {}]_vars

\* C12: a send that does not complete does not hold the others back: while
\* the call is suspended in a send to a socket that takes nothing, no other
\* member of the room is still waiting for its message.
C12_StalledSendDoesNotBlock ==
    \A b \in Broadcasts :
        bcast[b].pc = "stalled" => bcast[b].todo = {}

----------------------------------------------------------------------------
(* Properties of awards and their notifications *)

\* the request the last step answered
LastAward == orm_last'.req

AwardStep == orm_n' = orm_n + 1 /\ LastAward.kind = "award"

\* C26: a skill-point award never errors for exceeding the maximum: every
\* award of a positive number of skill points to a known student is accepted
\* (unless only its commit failed) and leaves the awarded skill at
\* min(5, current + amount), every stored skill level within 1..5.
C26_SkillAwardSaturates ==
    [][(/\ AwardStep
        /\ LastAward.type = "skill_points"
        /\ LastAward.amount > 0
        /\ LastAward.target_known)
          => \/ /\ orm_last'.status = "200"
                /\ player_skills' # {}
                /\ \A k \in player_skills' :
                      /\ k.skills[LastAward.skill_type]
                            = Min(MaxSkillLevel,
                                  SkillsOrNew.skills[LastAward.skill_type] + LastAward.amount)
                      /\ \A x \in SkillTypes : k.skills[x] \in 1..MaxSkillLevel
             \/ /\ orm_last'.status = "500"
                /\ OrmAwardError(LastAward, TRUE) = "none"]_vars

\* the step persisted something
Committed ==
    \/ player_stats' # player_stats
    \/ xp_entries' # xp_entries
    \/ player_skills' # player_skills

Ranked(rows) ==
    IF rows = {}
       THEN <<0, 1, StartingGold>>
       ELSE <<FirstRow(rows).total_xp, FirstRow(rows).current_level, FirstRow(rows).gold>>

\* C22: a committed mutation makes a leaderboard_update broadcast exactly
\* when it changed a value the leaderboard ranks by (XP, level or gold).
C22_LeaderboardUpdateIffRankedChange ==
    [][(orm_n' = orm_n + 1 /\ orm_last'.status = "200")
          => ((Ranked(player_stats') # Ranked(player_stats))
                <=> \E i \in DOMAIN NewTasks :
                       /\ NewTasks[i].type = "leaderboard_update"
                       /\ NewTasks[i].request = orm_n')]_vars

----------------------------------------------------------------------------
(* Properties of delivery *)

\* C23: per-connection delivery is FIFO: of two calls that both dispatch to a
\* socket, the one made later has not sent its event to the socket while the
\* one made earlier still has the socket waiting for its send.
C23_PerSocketFifo ==
    \A b1 \in Broadcasts : \A b2 \in Broadcasts : \A s \in Sockets :
        (b1 \in bcast[b2].after /\ s \in bcast[b2].sent)
            => s \notin bcast[b1].todo

\* C24: a room exists only while it has a member: the rooms map holds no
\* room with empty membership.
C24_NoEmptyRoom ==
    \A r \in DOMAIN manager.rooms : manager.rooms[r] # {}

\* socket ws is registered: it has a metadata entry and is in the set of its
\* user in the user index
Registered(m, ws) ==
    /\ ws \in DOMAIN m.connection_data
    /\ \E u \in DOMAIN m.connections : ws \in m.connections[u]

\* C29: every socket that is a member of a room is a registered connection.
C29_RoomMembersRegistered ==
    \A ws \in Sockets : InSomeRoom(manager, ws) => Registered(manager, ws)

\* C25: membership of all_users is implicit for a registered connection:
\* whatever room messages it has sent, every registered socket is among the
\* sockets a broadcast_to_all dispatches to.
C25_AllUsersImplicit ==
    \A ws \in Sockets :
        Registered(manager, ws)
            => ws \in Targets(manager, [kind |-> "room", key |-> AllUsersRoom])

\* the number of sockets in the sets of the user index
RECURSIVE IndexSize(_, _)
IndexSize(conns, users) ==
    IF users = {}
       THEN 0
       ELSE LET u == CHOOSE x \in users : TRUE
            IN  Cardinality(conns[u]) + IndexSize(conns, users \ {u})

\* C30: connection_count is the number of registered sockets (the entries of
\* connection_data, which is the total size of the per-user sets) and is
\* never negative.
C30_ConnectionCountExact ==
    /\ manager.connection_count = Cardinality(DOMAIN manager.connection_data)
    /\ manager.connection_count = IndexSize(manager.connections, DOMAIN manager.connections)
    /\ manager.connection_count >= 0

\* C30 witness: one connection has been registered and cleaned up by the
\* endpoint's finally clause while another is registered and counted.
C30_Witness ==
    \E s \in Sockets : \E t \in Sockets :
        /\ ws_pc[s] = "closed"
        /\ ws_dead[s] = FALSE
        /\ Registered(manager, t)
        /\ manager.connection_count = 1

\* the call t dispatches to socket ws in registry m
Addressed(m, t, ws) ==
    IF t.kind = "user"
       THEN t.key \in DOMAIN m.connections /\ ws \in m.connections[t.key]
       ELSE IsMember(m, ws, t.key)

\* the sockets of a call's copy
Copy(t) == t.sent \cup t.failed \cup t.todo \cup {t.cur}

\* C28: whatever registry operations interleave with a broadcast's sends,
\* the call serves the sockets that were members when it was made: its copy
\* holds every member, no step of another operation changes the copy, a send
\* that succeeds is counted as sent, and the call returns only when no socket
\* of the copy is left waiting.
C28_BroadcastServesItsCopy ==
    [][\A b \in Broadcasts :
          /\ (bcast[b].pc = "idle" /\ bcast'[b].pc # "idle")
                => \A ws \in Sockets :
                      Addressed(manager, bcast'[b], ws) => ws \in Copy(bcast'[b])
          /\ (bcast[b].pc # "idle" /\ bcast'[b].pc # "idle")
                => /\ Copy(bcast'[b]) = Copy(bcast[b])
                   /\ bcast[b].sent \subseteq bcast'[b].sent
                   /\ (bcast'[b].cur # bcast[b].cur /\ SendSucceeds(bcast[b].cur))
                         => bcast[b].cur \in bcast'[b].sent
          /\ (bcast[b].pc # "idle" /\ bcast'[b].pc = "idle")
                => bcast[b].todo = {}]_vars

\* C28 witness: while a call is in flight, a socket of its copy that has not
\* been sent to yet has gone from the room, and another has been sent to and
\* is still a member.
C28_Witness ==
    \E b \in Broadcasts : \E ws \in Sockets : \E t \in Sockets :
        /\ bcast[b].pc = "sending"
        /\ ws \in bcast[b].todo \cup {bcast[b].cur}
        /\ ~Addressed(manager, bcast[b], ws)
        /\ t \in bcast[b].sent
        /\ Addressed(manager, bcast[b], t)

\* C27: whatever student activity and admin awards the API has accepted, no
\* player_stats row has a negative current_xp or total_xp.
C27_XpNeverNegative ==
    \A r \in player_stats : r.current_xp >= 0 /\ r.total_xp >= 0

====
